---- MODULE Spec2Model ----
(***************************************************************************)
(* A model of the NDK client (src/src/index.ts) and of the NIP-46 remote   *)
(* signer (src/unnamed/part_000).                                          *)
(*                                                                         *)
(* Three objects are modelled, each with a specification over variables    *)
(* of its own:                                                             *)
(*   SpecClient : an NDK instance: constructor, publish, assertSigner      *)
(*   SpecFetch  : one subscribe / fetchEvent / fetchEvents call and the    *)
(*                Subscription it runs over a RelaySet                     *)
(*   SpecSigner : one NDKNip46Signer session: blockUntilReady, sign and    *)
(*                the responses the RPC layer routes to it                 *)
(*   SpecCrypto : the same session with its encrypt and decrypt as well    *)
(*                                                                         *)
(* NDKSubscription, dedupEvent, NDKRelaySet, calculateRelaySetFromEvent    *)
(* and NDKNostrRpc are imported by the two files but are not part of them; *)
(* their definitions here follow the written specification (sections 4.2,  *)
(* 4.3, 4.4) and are marked as such where they are defined.                *)
(***************************************************************************)
EXTENDS Integers, Sequences, FiniteSets, TLC

\* JavaScript's undefined: an absent option, argument or field.
Undefined == "<undefined>"

(***************************************************************************)
(* Bounds of the model.                                                    *)
(***************************************************************************)
\* the largest RelaySet a Subscription is bound to (relays 1..MaxRelays)
MaxRelays == 2
\* event timestamps range over 1..MaxTs
MaxTs == 2
\* how many events the relays deliver to one Subscription
MaxDeliver == 3
\* how many assertSigner calls one behaviour makes
MaxAsserts == 2
\* how many requests (blockUntilReady, sign) one signer session makes
MaxCalls == 2

VARIABLES
    \* ---- NDK instance (index.ts:48-69) ----
    config,             \* the options the constructor was called with
    signer,             \* this.signer: Undefined or a signer
    devWriteRelaySet,   \* this.devWriteRelaySet: undefined or a set of relay urls
    explicitRelayUrls,  \* the urls the pool was built from
    lastPublish,        \* what the last publish call did
    assertRun,          \* the assertSigner call in progress or just ended
    signerRequiredEmits,\* 'signerRequired' notifications emitted so far
    assertFails,        \* assertSigner calls that have thrown so far
    assertCalls,        \* assertSigner calls made so far
    \* ---- one subscribe / fetchEvent / fetchEvents call ----
    call,               \* "none", "subscribe", "fetchEvent" or "fetchEvents"
    relaySet,           \* the relays the Subscription is bound to
    closeOnEose,        \* opts.closeOnEose of the Subscription
    subState,           \* the Subscription's lifecycle state
    eosed,              \* relays whose stream-end the Subscription has seen
    eoseEmitted,        \* how often the Subscription emitted 'eose'
    events,             \* fetchEvents' Map tagId -> event, as a set of events
    fetchEventsResult,  \* the promise fetchEvents returned
    fetchEventResult,   \* the promise fetchEvent returned
    delivered,          \* every copy a relay delivered before overall stream-end
    nSent,              \* events the relays have sent to the Subscription
    nDiscarded,         \* those of them the closed Subscription discarded
    emitCount,          \* per identity key, the 'event' emissions made
    \* ---- one NDKNip46Signer session (part_000:8-33) ----
    rpcSubs,            \* subscriptions this.rpc.subscribe has opened
    handles,            \* the requests made, in order, each with its promise
    listeners,          \* requests whose once-listener is registered on this.rpc
    cryptoRun           \* the latest encrypt or decrypt call and what it threw

clientVars == <<config, signer, devWriteRelaySet, explicitRelayUrls, lastPublish,
                assertRun, signerRequiredEmits, assertFails, assertCalls>>
fetchVars == <<call, relaySet, closeOnEose, subState, eosed, eoseEmitted,
               events, fetchEventsResult, fetchEventResult, delivered, nSent,
               nDiscarded, emitCount>>
signerVars == <<rpcSubs, handles, listeners, cryptoRun>>
vars == <<clientVars, fetchVars, signerVars>>

(***************************************************************************)
(* Part 1.  The NDK instance: constructor, publish, assertSigner.          *)
(***************************************************************************)
\* An optional array or object (an option, an argument, a field) is the empty
\* set when undefined and the singleton of its value otherwise. An array and
\* an object are truthy whatever they hold.
None == {}
Some(x) == {x}
The(opt) == CHOOSE x \in opt : TRUE

\* The relay set of a list of urls: relays are deduplicated by address.
fromRelayUrls(urls) ==
    {urls[i] : i \in DOMAIN urls}

\* The constructor options the model draws from.
ConstructorParams ==
    [explicitRelayUrls : {None, Some(<<"wss://pool">>)},
     devWriteRelayUrls : {None, Some(<<>>), Some(<<"wss://dev">>),
                          Some(<<"wss://dev", "wss://dev">>)},
     signer : {Undefined, "signer"}]

\* index.ts:61: opts.explicitRelayUrls||[]
PoolUrls(params) ==
    IF params.explicitRelayUrls = None THEN <<>> ELSE The(params.explicitRelayUrls)

\* index.ts:66-68: if (opts.devWriteRelayUrls) { this.devWriteRelaySet = ... }:
\* every array, the empty one too, is truthy.
ConstructDevWriteRelaySet(params) ==
    IF params.devWriteRelayUrls # None
    THEN Some(fromRelayUrls(The(params.devWriteRelayUrls)))
    ELSE None

IdleRun == [pc |-> "idle", hadSigner |-> FALSE, emits |-> 0]
NoPublish == [event |-> None, arg |-> None, target |-> {}, calculated |-> FALSE]

constructor(params) ==
    /\ config = params
    /\ explicitRelayUrls = PoolUrls(params)
    /\ signer = params.signer
    /\ devWriteRelaySet = ConstructDevWriteRelaySet(params)
    /\ lastPublish = NoPublish
    /\ assertRun = IdleRun
    /\ signerRequiredEmits = 0
    /\ assertFails = 0
    /\ assertCalls = 0

\* The events publish is called with: the author's write relays and the relay
\* addresses its tags name.
PubEvents == [authorRelays : SUBSET {"wss://write"}, tagRelays : SUBSET {"wss://tag"}]

\* The relaySet argument: no argument, or an NDKRelaySet (a set of relays,
\* possibly empty).
RelaySetArgs == {None, Some({}), Some({"wss://arg"})}

\* Section 4.2: the union of the author's write relays and the relays the
\* event's tags reference; the client's explicit relays if both are empty.
calculateRelaySetFromEvent(event) ==
    LET own == event.authorRelays \cup event.tagRelays
    IN IF own # {} THEN own ELSE fromRelayUrls(explicitRelayUrls)

\* Variant of PublishTarget: the dev-override set before the argument.
PublishTargetDevFirst(event, arg) ==
    IF devWriteRelaySet # None THEN The(devWriteRelaySet)
    ELSE IF arg # None THEN The(arg)
    ELSE calculateRelaySetFromEvent(event)

\* index.ts:121-124: relaySet, else devWriteRelaySet, else the computed set.
PublishTarget(event, arg) ==
    IF arg = None
    THEN (IF devWriteRelaySet # None
          THEN The(devWriteRelaySet)
          ELSE calculateRelaySetFromEvent(event))
    ELSE The(arg)

\* index.ts:123: || evaluates calculateRelaySetFromEvent only when no
\* argument was given and devWriteRelaySet is undefined.
PublishCalculates(arg) ==
    arg = None /\ devWriteRelaySet = None

\* index.ts:117-127: relaySet.publish(event) on the one set chosen.
publish(event, arg) ==
    /\ lastPublish' = [event |-> Some(event), arg |-> arg,
                       target |-> PublishTarget(event, arg),
                       calculated |-> PublishCalculates(arg)]
    /\ UNCHANGED <<config, signer, devWriteRelaySet, explicitRelayUrls, assertRun,
                   signerRequiredEmits, assertFails, assertCalls>>

Publish ==
    \E event \in PubEvents, arg \in RelaySetArgs : publish(event, arg)

\* ndk.signer is a public field: a caller, or a 'signerRequired' listener,
\* may assign it at any time.
SupplySigner ==
    /\ signer = Undefined
    /\ signer' = "signer"
    /\ UNCHANGED <<config, devWriteRelaySet, explicitRelayUrls, lastPublish, assertRun,
                   signerRequiredEmits, assertFails, assertCalls>>

\* Variant of AssertNeedsSigner: the signer is not looked at.
AssertEmitsAlways(hasSigner) ==
    TRUE

\* index.ts:170: if (!this.signer)
AssertNeedsSigner(hasSigner) ==
    ~hasSigner

\* index.ts:169-171: a call enters; without a signer it emits 'signerRequired'
\* (line 171), with one it returns.
AssertSignerEnter ==
    /\ assertRun.pc # "emitted"
    /\ assertCalls < MaxAsserts
    /\ assertCalls' = assertCalls + 1
    /\ IF AssertNeedsSigner(signer # Undefined)
       THEN /\ signerRequiredEmits' = signerRequiredEmits + 1
            /\ assertRun' = [pc |-> "emitted", hadSigner |-> signer # Undefined,
                             emits |-> 1]
       ELSE /\ signerRequiredEmits' = signerRequiredEmits
            /\ assertRun' = [pc |-> "returned", hadSigner |-> signer # Undefined,
                             emits |-> 0]
    /\ UNCHANGED <<config, signer, devWriteRelaySet, explicitRelayUrls, lastPublish,
                   assertFails>>

\* index.ts:172: throw new Error('Signer required'), after the listeners ran.
AssertSignerThrow ==
    /\ assertRun.pc = "emitted"
    /\ assertFails' = assertFails + 1
    /\ assertRun' = [assertRun EXCEPT !.pc = "failed"]
    /\ UNCHANGED <<config, signer, devWriteRelaySet, explicitRelayUrls, lastPublish,
                   signerRequiredEmits, assertCalls>>

(***************************************************************************)
(* Part 2.  subscribe, fetchEvent, fetchEvents and their Subscription.     *)
(***************************************************************************)
Keys == {"k1", "k2"}
Relays == 1 .. MaxRelays
Timestamps == 1 .. MaxTs

\* A copy of an event as a relay delivers it: key is its tagId() (the identity
\* key), ts its created_at, from the relay whose copy it is.
Copies == [key : Keys, ts : Timestamps, from : Relays]

Pending == [state |-> "pending", value |-> {}]

InitFetch ==
    /\ call = "none"
    /\ relaySet = {}
    /\ closeOnEose = FALSE
    /\ subState = "created"
    /\ eosed = {}
    /\ eoseEmitted = 0
    /\ events = {}
    /\ fetchEventsResult = Pending
    /\ fetchEventResult = Pending
    /\ delivered = {}
    /\ nSent = 0
    /\ nDiscarded = 0
    /\ emitCount = [k \in Keys |-> 0]

\* Variant of subscribe: the Subscription is returned without being started.
subscribeNotStarted(opts, set) ==
    /\ relaySet' = set
    /\ closeOnEose' = opts.closeOnEose
    /\ subState' = "created"
    /\ eosed' = {}
    /\ eoseEmitted' = 0

\* index.ts:106-107: new NDKSubscription(...) then subscription.start().
subscribe(opts, set) ==
    /\ relaySet' = set
    /\ closeOnEose' = opts.closeOnEose
    /\ subState' = "started"
    /\ eosed' = {}
    /\ eoseEmitted' = 0

\* A caller's own subscribe(filter, opts, relaySet).
CallSubscribe ==
    /\ call = "none"
    /\ call' = "subscribe"
    /\ \E n \in 1 .. MaxRelays, c \in BOOLEAN : subscribe([closeOnEose |-> c], 1 .. n)
    /\ UNCHANGED <<events, fetchEventsResult, fetchEventResult, delivered, nSent,
                   nDiscarded, emitCount>>

\* index.ts:132-134: fetchEvent subscribes with closeOnEose: true.
CallFetchEvent ==
    /\ call = "none"
    /\ call' = "fetchEvent"
    /\ \E n \in 1 .. MaxRelays : subscribe([closeOnEose |-> TRUE], 1 .. n)
    /\ UNCHANGED <<events, fetchEventsResult, fetchEventResult, delivered, nSent,
                   nDiscarded, emitCount>>

\* Variant of CallFetchEvents: the Subscription is left open at stream-end.
CallFetchEventsStaysOpen ==
    /\ call = "none"
    /\ call' = "fetchEvents"
    /\ events' = {}
    /\ \E n \in 1 .. MaxRelays : subscribe([closeOnEose |-> FALSE], 1 .. n)
    /\ UNCHANGED <<fetchEventsResult, fetchEventResult, delivered, nSent,
                   nDiscarded, emitCount>>

\* index.ts:145-149: fetchEvents starts with an empty Map and subscribes with
\* closeOnEose: true.
CallFetchEvents ==
    /\ call = "none"
    /\ call' = "fetchEvents"
    /\ events' = {}
    /\ \E n \in 1 .. MaxRelays : subscribe([closeOnEose |-> TRUE], 1 .. n)
    /\ UNCHANGED <<fetchEventsResult, fetchEventResult, delivered, nSent,
                   nDiscarded, emitCount>>

\* Section 4.3, merge rule: the copy with the later timestamp wins; on a tie
\* the incoming copy.
dedupEvent(event1, event2) ==
    IF event1.ts > event2.ts THEN event1 ELSE event2

\* events.get(tagId): the set holds at most one event per key.
MapGet(map, key) ==
    {e \in map : e.key = key}

\* Variant of MapSet: the event is added beside the entry of its key.
MapSetAdd(map, event) ==
    map \cup {event}

\* events.set(event.tagId(), event)
MapSet(map, event) ==
    {e \in map : e.key # event.key} \cup {event}

\* Variant of FetchEventsMerge: the incoming copy replaces the entry unmerged.
FetchEventsMergeKeepIncoming(map, event) ==
    MapSet(map, event)

\* index.ts:152-158: merge with the existing entry of the same tagId, if any,
\* and store the result under its tagId.
FetchEventsMerge(map, event) ==
    LET existing == MapGet(map, event.key)
        merged == IF existing # {}
                  THEN dedupEvent(CHOOSE x \in existing : TRUE, event)
                  ELSE event
    IN MapSet(map, merged)

\* Variant of FetchEventOnEvent: every event replaces the result.
FetchEventOnEventLastWins(event) ==
    fetchEventResult' = [state |-> "resolved", value |-> {event}]

\* index.ts:135-138: resolve(event); a promise settles once.
FetchEventOnEvent(event) ==
    fetchEventResult' =
        IF fetchEventResult.state = "pending"
        THEN [state |-> "resolved", value |-> {event}]
        ELSE fetchEventResult

\* Variant of EmitEvent: fetchEvents resolves from its 'event' handler, with
\* what it has accumulated so far.
EmitEventResolvesEarly(event) ==
    /\ emitCount' = [emitCount EXCEPT ![event.key] = @ + 1]
    /\ events' = IF call = "fetchEvents" THEN FetchEventsMerge(events, event) ELSE events
    /\ IF call = "fetchEvent"
       THEN FetchEventOnEvent(event)
       ELSE UNCHANGED fetchEventResult
    /\ fetchEventsResult' =
          IF call = "fetchEvents" /\ fetchEventsResult.state = "pending"
          THEN [state |-> "resolved", value |-> events']
          ELSE fetchEventsResult

\* index.ts:135-138 and 151-159: the 'event' handlers of the call in progress,
\* run when the Subscription emits 'event'.
EmitEvent(event) ==
    /\ emitCount' = [emitCount EXCEPT ![event.key] = @ + 1]
    /\ events' = IF call = "fetchEvents" THEN FetchEventsMerge(events, event) ELSE events
    /\ IF call = "fetchEvent"
       THEN FetchEventOnEvent(event)
       ELSE UNCHANGED fetchEventResult
    /\ UNCHANGED fetchEventsResult

\* Variant of EmitEose: stream-end also settles a pending fetchEvent, with no
\* event.
EmitEoseSettlesFetchEvent ==
    /\ eoseEmitted' = eoseEmitted + 1
    /\ fetchEventsResult' =
          IF call = "fetchEvents" /\ fetchEventsResult.state = "pending"
          THEN [state |-> "resolved", value |-> events]
          ELSE fetchEventsResult
    /\ fetchEventResult' =
          IF call = "fetchEvent" /\ fetchEventResult.state = "pending"
          THEN [state |-> "resolved", value |-> {}]
          ELSE fetchEventResult
    /\ UNCHANGED <<events, emitCount>>

\* index.ts:160-162: resolve(new Set(events.values())); a promise settles once.
\* fetchEvent (index.ts:132-140) registers no 'eose' handler.
EmitEose ==
    /\ eoseEmitted' = eoseEmitted + 1
    /\ fetchEventsResult' =
          IF call = "fetchEvents" /\ fetchEventsResult.state = "pending"
          THEN [state |-> "resolved", value |-> events]
          ELSE fetchEventsResult
    /\ UNCHANGED <<events, fetchEventResult, emitCount>>

\* A relay of the set delivers a copy to a Subscription that is not closed:
\* the Subscription hands it to its 'event' handlers. Copies of an identity
\* already seen reach the handlers too: fetchEvents merges them itself
\* (index.ts:152-155; section 4.1, "dedup-merge on repeated identities").
RelayEvent ==
    /\ call # "none"
    /\ subState \in {"started", "running", "streamEnded"}
    /\ nSent < MaxDeliver
    /\ \E r \in relaySet, k \in Keys, t \in Timestamps :
          LET e == [key |-> k, ts |-> t, from |-> r]
          IN /\ EmitEvent(e)
             /\ delivered' = IF eoseEmitted = 0 THEN delivered \cup {e} ELSE delivered
    /\ nSent' = nSent + 1
    /\ subState' = IF subState = "started" THEN "running" ELSE subState
    /\ UNCHANGED <<call, relaySet, closeOnEose, eosed, eoseEmitted, nDiscarded>>

\* Section 4.3: events delivered after closed are discarded.
RelayEventDiscarded ==
    /\ call # "none"
    /\ subState = "closed"
    /\ nSent < MaxDeliver
    /\ nSent' = nSent + 1
    /\ nDiscarded' = nDiscarded + 1
    /\ UNCHANGED <<call, relaySet, closeOnEose, subState, eosed, eoseEmitted,
                   events, fetchEventsResult, fetchEventResult, delivered,
                   emitCount>>

\* Variant of StreamEnded: the first relay to end ends the stream.
StreamEndedFirstRelay(seen) ==
    seen # {}

\* Section 4.3: streamEnded is reached when every relay of the RelaySet has
\* reported its own stream-end.
StreamEnded(seen) ==
    relaySet \subseteq seen

\* A relay of the set signals stream-end. The Subscription records it and, on
\* reaching streamEnded, emits 'eose' and closes if closeOnEose is set.
RelayEose ==
    /\ call # "none"
    /\ subState \in {"started", "running", "streamEnded"}
    /\ \E r \in relaySet :
          /\ eosed' = eosed \cup {r}
          /\ IF subState # "streamEnded" /\ StreamEnded(eosed \cup {r})
             THEN /\ EmitEose
                  /\ subState' = IF closeOnEose THEN "closed" ELSE "streamEnded"
             ELSE /\ subState' = IF subState = "started" THEN "running" ELSE subState
                  /\ UNCHANGED <<eoseEmitted, events, fetchEventsResult, fetchEventResult,
                                 emitCount>>
    /\ UNCHANGED <<call, relaySet, closeOnEose, delivered, nSent, nDiscarded>>

\* Subscription.close(): explicit cancellation by the owner of a Subscription.
Close ==
    /\ call = "subscribe"
    /\ subState \in {"started", "running", "streamEnded"}
    /\ subState' = "closed"
    /\ UNCHANGED <<call, relaySet, closeOnEose, eosed, eoseEmitted, events,
                   fetchEventsResult, fetchEventResult, delivered, nSent,
                   nDiscarded, emitCount>>

(***************************************************************************)
(* Part 3.  The NIP-46 signer session: blockUntilReady, sign, responses.   *)
(***************************************************************************)
\* The two keys of a session: the local transport key (this.localSigner) and
\* the remote signing identity (this.remotePubkey).
LocalKey == "local-transport-key"
RemoteKey == "remote-signing-key"

\* Math.random().toString(36).substring(7): nothing keeps two calls from
\* drawing the same id.
IdSpace == {"id1", "id2"}

\* A response the RPC layer parsed: its id, its result and its error field
\* (Undefined when the response carries none; "" is an error field that is
\* present and falsy). "ack" is also the result that is not JSON.
Results == {"ack", "{\"sig\":\"s1\"}", "{\"sig\":\"s2\"}"}
ErrorFields == {Undefined, "", "denied"}
Responses == [id : IdSpace, result : Results, error : ErrorFields]

\* JavaScript truthiness of an optional string.
Truthy(v) ==
    v \notin {Undefined, ""}

\* JSON.parse: the parsed object, or a SyntaxError thrown.
JSONparse(text) ==
    CASE text = "{\"sig\":\"s1\"}" -> [throws |-> FALSE, sig |-> "s1"]
      [] text = "{\"sig\":\"s2\"}" -> [throws |-> FALSE, sig |-> "s2"]
      [] OTHER -> [throws |-> TRUE, sig |-> Undefined]

Unsettled == [state |-> "pending", value |-> Undefined]

\* No encrypt or decrypt call has been made.
NoCrypto ==
    [op |-> "none", error |-> Undefined]

InitSigner ==
    /\ rpcSubs = 0
    /\ handles = <<>>
    /\ listeners = {}
    /\ cryptoRun = NoCrypto

\* Variant of ConnectHandler: tests the error field and resolves with the
\* remote identity.
ConnectHandlerNoError(response) ==
    IF ~Truthy(response.error)
    THEN [state |-> "resolved", value |-> RemoteKey]
    ELSE [state |-> "rejected", value |-> response.error]

\* part_000:40-41, 52-58: the listener of blockUntilReady; user is the NDKUser
\* of localUser.npub.
ConnectHandler(response) ==
    IF response.result = "ack"
    THEN [state |-> "resolved", value |-> LocalKey]
    ELSE [state |-> "rejected", value |-> response.error]

\* Variant of SignHandler: tests the result before the error field.
SignHandlerResultFirst(response) ==
    LET json == JSONparse(response.result)
    IN IF ~json.throws
       THEN [state |-> "resolved", value |-> json.sig]
       ELSE [state |-> "rejected", value |-> response.error]

\* part_000:80-88: the listener of sign. It is an async function: when
\* JSON.parse throws, neither resolve nor reject is called.
SignHandler(response) ==
    IF ~Truthy(response.error)
    THEN LET json == JSONparse(response.result)
         IN IF json.throws
            THEN Unsettled
            ELSE [state |-> "resolved", value |-> json.sig]
    ELSE [state |-> "rejected", value |-> response.error]

\* A promise settles once: resolve and reject on a settled promise do nothing.
Settle(handle, outcome) ==
    IF handle.state = "pending"
    THEN [handle EXCEPT !.state = outcome.state, !.value = outcome.value]
    ELSE handle

\* The listener of a request runs on a response: resp is the first response it
\* ran on, late tells that a later response bore the same id.
RunListener(handle, response) ==
    LET outcome == IF handle.method = "connect"
                   THEN ConnectHandler(response)
                   ELSE SignHandler(response)
        settled == Settle(handle, outcome)
    IN IF handle.resp = None
       THEN [settled EXCEPT !.resp = Some(response)]
       ELSE [settled EXCEPT !.late = TRUE]

NewHandle(method, id) ==
    [method |-> method, id |-> id, state |-> "pending", value |-> Undefined,
     resp |-> None, late |-> FALSE]

\* part_000:50-61, 79-91: the promise is created and its listener registered
\* before sendRequest publishes the request; sendRequest changes nothing of
\* the session.
Request(method, id) ==
    /\ Len(handles) < MaxCalls
    /\ handles' = Append(handles, NewHandle(method, id))
    /\ listeners' = listeners \cup {Len(handles) + 1}

\* part_000:39-64
blockUntilReady ==
    /\ rpcSubs' = rpcSubs + 1
    /\ \E connectId \in IdSpace : Request("connect", connectId)
    /\ UNCHANGED cryptoRun

\* part_000:74-94
sign ==
    /\ UNCHANGED <<rpcSubs, cryptoRun>>
    /\ \E connectId \in IdSpace : Request("sign_event", connectId)

\* Variant of encrypt: the call is forwarded to the remote signer as a request.
encryptViaRpc ==
    /\ cryptoRun' = [op |-> "encrypt", error |-> Undefined]
    /\ UNCHANGED rpcSubs
    /\ \E id \in IdSpace : Request("nip04_encrypt", id)

\* part_000:66-68: throw new Error('not implemented'), nothing else.
encrypt ==
    /\ cryptoRun' = [op |-> "encrypt", error |-> "not implemented"]
    /\ UNCHANGED <<rpcSubs, handles, listeners>>

\* part_000:70-72: throw new Error('not implemented'), nothing else.
decrypt ==
    /\ cryptoRun' = [op |-> "decrypt", error |-> "not implemented"]
    /\ UNCHANGED <<rpcSubs, handles, listeners>>

\* Variant of ListensTo: one listener name for every response.
ListensToAny(handle, response) ==
    TRUE

\* part_000:52, 80: the listener is registered under `response-${connectId}`.
ListensTo(handle, response) ==
    handle.id = response.id

\* Variant of once: on, which keeps the listener.
KeepListeners(fired) ==
    listeners

\* part_000:52, 80: this.rpc.once: a listener is removed as it is invoked.
once(fired) ==
    listeners \ fired

\* Section 4.4: the RPC subscription delivers a response; the RPC layer emits
\* it as `response-<id>` and every listener of that name runs.
Deliver(response) ==
    LET fired == {h \in listeners : ListensTo(handles[h], response)}
    IN /\ rpcSubs >= 1
       /\ handles' = [h \in DOMAIN handles |->
                        IF h \in fired
                        THEN RunListener(handles[h], response)
                        ELSE IF handles[h].resp # None /\ handles[h].id = response.id
                        THEN [handles[h] EXCEPT !.late = TRUE]
                        ELSE handles[h]]
       /\ listeners' = once(fired)
       /\ UNCHANGED <<rpcSubs, cryptoRun>>

Response ==
    \E response \in Responses : Deliver(response)

(***************************************************************************)
(* Specifications.                                                         *)
(***************************************************************************)
DefaultParams ==
    [explicitRelayUrls |-> Some(<<"wss://pool">>), devWriteRelayUrls |-> None,
     signer |-> Undefined]

InitClient ==
    /\ \E params \in ConstructorParams : constructor(params)
    /\ InitFetch
    /\ InitSigner

NextClient ==
    \/ (Publish /\ UNCHANGED <<fetchVars, signerVars>>)
    \/ (SupplySigner /\ UNCHANGED <<fetchVars, signerVars>>)
    \/ (AssertSignerEnter /\ UNCHANGED <<fetchVars, signerVars>>)
    \/ (AssertSignerThrow /\ UNCHANGED <<fetchVars, signerVars>>)

SpecClient == InitClient /\ [][NextClient]_vars

InitFetchCall ==
    /\ constructor(DefaultParams)
    /\ InitFetch
    /\ InitSigner

NextFetch ==
    \/ (CallSubscribe /\ UNCHANGED <<clientVars, signerVars>>)
    \/ (CallFetchEvent /\ UNCHANGED <<clientVars, signerVars>>)
    \/ (CallFetchEvents /\ UNCHANGED <<clientVars, signerVars>>)
    \/ (RelayEvent /\ UNCHANGED <<clientVars, signerVars>>)
    \/ (RelayEventDiscarded /\ UNCHANGED <<clientVars, signerVars>>)
    \/ (RelayEose /\ UNCHANGED <<clientVars, signerVars>>)
    \/ (Close /\ UNCHANGED <<clientVars, signerVars>>)

SpecFetch == InitFetchCall /\ [][NextFetch]_vars

InitSession ==
    /\ constructor(DefaultParams)
    /\ InitFetch
    /\ InitSigner

NextSigner ==
    \/ (blockUntilReady /\ UNCHANGED <<clientVars, fetchVars>>)
    \/ (sign /\ UNCHANGED <<clientVars, fetchVars>>)
    \/ (Response /\ UNCHANGED <<clientVars, fetchVars>>)

SpecSigner == InitSession /\ [][NextSigner]_vars

\* The session with its encrypt and decrypt operations as well.
NextCrypto ==
    \/ (blockUntilReady /\ UNCHANGED <<clientVars, fetchVars>>)
    \/ (sign /\ UNCHANGED <<clientVars, fetchVars>>)
    \/ (encrypt /\ UNCHANGED <<clientVars, fetchVars>>)
    \/ (decrypt /\ UNCHANGED <<clientVars, fetchVars>>)
    \/ (Response /\ UNCHANGED <<clientVars, fetchVars>>)

SpecCrypto == InitSession /\ [][NextCrypto]_vars

(***************************************************************************)
(* Properties.                                                             *)
(***************************************************************************)

C2_EoseIffAllRelaysOnce ==
    call # "none" =>
        eoseEmitted = (IF relaySet \subseteq eosed THEN 1 ELSE 0)

\* C2, witness: a Subscription over two relays that stays open after
\* stream-end has seen both relays end and has emitted stream-end once.
C2_Witness ==
    /\ call = "subscribe"
    /\ relaySet = {1, 2}
    /\ eosed = {1, 2}
    /\ ~closeOnEose
    /\ subState = "streamEnded"
    /\ eoseEmitted = 1

\* C9: publish delivers to the relaySet argument if one is given, else to the
\* dev-override set if devWriteRelayUrls was configured, else to the set
\* computed from the event; the computation runs only in the last case.
C9_PublishPriority ==
    lastPublish.event # None =>
        LET event == The(lastPublish.event)
            arg == lastPublish.arg
            dev == config.devWriteRelayUrls
        IN /\ lastPublish.target =
                 (IF arg # None THEN The(arg)
                  ELSE IF dev # None THEN fromRelayUrls(The(dev))
                  ELSE calculateRelaySetFromEvent(event))
           /\ lastPublish.calculated = (arg = None /\ dev = None)

\* C9, witness: with a dev-override set configured, a publish with an explicit
\* relaySet went to the explicit set, which is not the dev-override set.
C9_Witness ==
    /\ config.devWriteRelayUrls = Some(<<"wss://dev">>)
    /\ lastPublish.arg = Some({"wss://arg"})
    /\ lastPublish.target = {"wss://arg"}
    /\ ~lastPublish.calculated

\* C10: an assertSigner call made without a signer emits 'signerRequired' once
\* and throws only in a later step; a call made with a signer emits nothing
\* and does not throw; nothing else emits or throws.
C10_StepOk ==
    /\ (assertCalls' # assertCalls /\ signer = Undefined) =>
          /\ signerRequiredEmits' = signerRequiredEmits + 1
          /\ assertFails' = assertFails
          /\ assertRun'.pc = "emitted"
    /\ (assertCalls' # assertCalls /\ signer # Undefined) =>
          /\ signerRequiredEmits' = signerRequiredEmits
          /\ assertFails' = assertFails
          /\ assertRun'.pc = "returned"
    /\ (assertCalls' = assertCalls) => signerRequiredEmits' = signerRequiredEmits
    /\ (assertFails' # assertFails) =>
          /\ assertFails' = assertFails + 1
          /\ assertRun.pc = "emitted"
          /\ assertCalls' = assertCalls
    /\ signerRequiredEmits' =
          assertFails' + (IF assertRun'.pc = "emitted" THEN 1 ELSE 0)

C10_AssertSigner == [][C10_StepOk]_vars

\* C10, witness: a first call without a signer emitted and threw, a signer was
\* supplied, and a second call returned.
C10_Witness ==
    /\ assertCalls = 2
    /\ assertRun.pc = "returned"
    /\ signerRequiredEmits = 1
    /\ assertFails = 1

SignHandles == {h \in DOMAIN handles : handles[h].method = "sign_event"}
ConnectHandles == {h \in DOMAIN handles : handles[h].method = "connect"}
Answered == {h \in DOMAIN handles : handles[h].resp # None}
FirstResponse(h) == The(handles[h].resp)

\* C3, as stated: a sign request whose first response carries an error field
\* never resolves with a signature.
C3_NeverResolvesOnErrorField ==
    \A h \in SignHandles \cap Answered :
        FirstResponse(h).error # Undefined => handles[h].state # "resolved"

\* C3, amended: a sign request whose first response carries a non-empty error
\* is rejected with exactly that error, in every later state too, whatever
\* responses follow.
C3_RejectsOnError ==
    \A h \in SignHandles \cap Answered :
        Truthy(FirstResponse(h).error) =>
            /\ handles[h].state = "rejected"
            /\ handles[h].value = FirstResponse(h).error

\* C3, witness: a sign request was rejected with the error of its first
\* response, which also carried a signature, and a later response bore the
\* same id.
C3_Witness ==
    \E h \in SignHandles \cap Answered :
        /\ FirstResponse(h).error = "denied"
        /\ FirstResponse(h).result = "{\"sig\":\"s1\"}"
        /\ handles[h].state = "rejected"
        /\ handles[h].late

\* C4: a sign request whose first response carries no error field is resolved
\* with the signature of that response's result.
C4_ResolvesWithSignature ==
    \A h \in SignHandles \cap Answered :
        FirstResponse(h).error = Undefined =>
            /\ handles[h].state = "resolved"
            /\ handles[h].value = JSONparse(FirstResponse(h).result).sig

\* C5: the record of a request changes only in a step that delivers a
\* response bearing the request's own id.
C5_Step ==
    \A h \in DOMAIN handles :
        handles'[h] # handles[h] =>
            \E response \in Responses :
                /\ response.id = handles[h].id
                /\ Deliver(response)

C5_OnlyOwnResponse == [][C5_Step]_vars

\* C5, witness: two requests with different ids were outstanding; the response
\* to the second settled it and the first is still pending.
C5_Witness ==
    /\ Len(handles) = 2
    /\ handles[1].id # handles[2].id
    /\ handles[1].state = "pending"
    /\ handles[1].resp = None
    /\ handles[2].state # "pending"

\* C6: a request that has handled a response has no listener registered, and
\* no later step changes its outcome or the response it handled; a step that
\* makes no request and runs no listener (a response whose id has no listener
\* left) changes nothing of the session but the note that it came late.
C6_Step ==
    /\ \A h \in DOMAIN handles' :
          handles'[h].resp # None => h \notin listeners'
    /\ \A h \in Answered :
          /\ handles'[h].state = handles[h].state
          /\ handles'[h].value = handles[h].value
          /\ handles'[h].resp = handles[h].resp
    /\ (Len(handles') = Len(handles) /\ listeners' = listeners) =>
          /\ rpcSubs' = rpcSubs
          /\ \A h \in DOMAIN handles :
                [handles'[h] EXCEPT !.late = FALSE]
                    = [handles[h] EXCEPT !.late = FALSE]

C6_FulfilledOnce == [][C6_Step]_vars

\* C6, witness: a settled request saw a second response with its id.
C6_Witness ==
    \E h \in Answered :
        /\ handles[h].state # "pending"
        /\ handles[h].late
        /\ h \notin listeners

\* C7: a sign request that has handled a response is resolved or rejected.
C7_FulfilledByAnyResponse ==
    \A h \in SignHandles \cap Answered : handles[h].state # "pending"

\* C8: a connect request whose first response has result "ack" is resolved
\* with the identity of the local transport key, which is not the remote
\* signing identity; one whose first response has another result is rejected
\* with that response's error field.
C8_BlockUntilReady ==
    \A h \in ConnectHandles \cap Answered :
        IF FirstResponse(h).result = "ack"
        THEN /\ handles[h].state = "resolved"
             /\ handles[h].value = LocalKey
             /\ handles[h].value # RemoteKey
        ELSE /\ handles[h].state = "rejected"
             /\ handles[h].value = FirstResponse(h).error

\* C8, witness: one blockUntilReady was acknowledged and resolved, another
\* got a result that is not "ack" and was rejected with the error sent.
C8_Witness ==
    \E g, h \in ConnectHandles \cap Answered :
        /\ FirstResponse(g).result = "ack"
        /\ handles[g].state = "resolved"
        /\ FirstResponse(h).result # "ack"
        /\ FirstResponse(h).error = "denied"
        /\ handles[h].state = "rejected"

\* C11: fetchEvents is resolved if and only if its Subscription has reached
\* overall stream-end (stream-end from every relay of the set), so never
\* before it; the collection it resolves with has an entry for every identity
\* key delivered before that point; and once resolved the result never
\* changes again, whatever the relays send afterwards.
C11_Step ==
    call' = "fetchEvents" =>
        /\ (fetchEventsResult'.state = "resolved") <=>
               (eoseEmitted' = 1 /\ relaySet' \subseteq eosed')
        /\ (fetchEventsResult'.state = "resolved") =>
               \A e \in delivered' :
                   \E x \in fetchEventsResult'.value : x.key = e.key
        /\ (fetchEventsResult.state = "resolved") =>
               fetchEventsResult' = fetchEventsResult

C11_FetchEventsResolvesAtStreamEnd == [][C11_Step]_vars

\* C11, witness: both relays delivered one identity each and ended; fetchEvents
\* resolved with the two entries, and a relay has sent one more event since.
C11_Witness ==
    /\ call = "fetchEvents"
    /\ relaySet = {1, 2}
    /\ eosed = {1, 2}
    /\ delivered = {[key |-> "k1", ts |-> 1, from |-> 1],
                    [key |-> "k2", ts |-> 1, from |-> 2]}
    /\ fetchEventsResult = [state |-> "resolved", value |-> delivered]
    /\ nDiscarded = 1

\* C12: fetchEvent resolves with the first event a relay delivers, in the
\* step that delivers it and whether or not any relay has ended its stream;
\* once resolved, the result is left unchanged by every later event, whatever
\* its relay, identity key and timestamp.
C12_Step ==
    call' = "fetchEvent" =>
        /\ (delivered = {} /\ delivered' # {}) =>
               fetchEventResult' = [state |-> "resolved", value |-> delivered']
        /\ (fetchEventResult.state = "resolved") =>
               fetchEventResult' = fetchEventResult

C12_FetchEventFirstEvent == [][C12_Step]_vars

\* C12, witness: relay 1 delivered a copy of k1 first, no relay has ended its
\* stream, and fetchEvent is resolved with that copy although relay 2 has
\* since delivered a later copy of k1 and an event of another identity.
C12_Witness ==
    /\ call = "fetchEvent"
    /\ relaySet = {1, 2}
    /\ eosed = {}
    /\ fetchEventResult = [state |-> "resolved",
                           value |-> {[key |-> "k1", ts |-> 1, from |-> 1]}]
    /\ delivered = {[key |-> "k1", ts |-> 1, from |-> 1],
                    [key |-> "k1", ts |-> 2, from |-> 2],
                    [key |-> "k2", ts |-> 2, from |-> 2]}

\* C13: encrypt and decrypt on the remote signer always fail with "not
\* implemented" and do nothing else: the call opens no RPC subscription,
\* publishes no request, registers no response handler and leaves the
\* outstanding requests as they were.
C13_Step ==
    /\ (cryptoRun'.op # "none") => cryptoRun'.error = "not implemented"
    /\ (cryptoRun' # cryptoRun) =>
          /\ rpcSubs' = rpcSubs
          /\ handles' = handles
          /\ listeners' = listeners

C13_CryptoNotImplemented == [][C13_Step]_vars

\* C13, witness: decrypt has just thrown "not implemented" in a session with
\* an answered connect request and a sign_event request still outstanding.
C13_Witness ==
    /\ cryptoRun = [op |-> "decrypt", error |-> "not implemented"]
    /\ rpcSubs = 1
    /\ Len(handles) = 2
    /\ handles[1].method = "connect"
    /\ handles[1].state = "resolved"
    /\ handles[2].method = "sign_event"
    /\ handles[2].state = "pending"
    /\ listeners = {2}

\* C14: once blockUntilReady or sign has been called on a session, whatever
\* the calls and their order, the session has opened exactly one RPC
\* subscription; a repeated blockUntilReady opens no further one.
C14_OneRpcSubscription ==
    (handles # <<>>) => rpcSubs = 1

\* C18: whenever the session publishes a request (connect or sign_event), in
\* any order of calls, an RPC subscription has been opened by then and the
\* response handler of the new request is registered.
C18_Step ==
    (Len(handles') > Len(handles)) =>
        /\ rpcSubs' >= 1
        /\ Len(handles') \in listeners'

C18_SubscribedBeforeRequest == [][C18_Step]_vars

C16_Step ==
    /\ (call = "none" /\ call' # "none") =>
          /\ subState' = "started"
          /\ nSent' = 0
          /\ eosed' = {}
          /\ eoseEmitted' = 0
          /\ \A k \in Keys : emitCount'[k] = 0
    /\ (call' = "fetchEvents") =>
          /\ \A e \in delivered' : MapGet(events', e.key) # {}
          /\ (eoseEmitted' = 1) => fetchEventsResult'.state = "resolved"
    /\ (call' = "fetchEvent") =>
          ((delivered' # {}) => fetchEventResult'.state = "resolved")

C16_StartedBeforeDelivery == [][C16_Step]_vars

\* C16, witness: the Subscription of fetchEvents over one relay delivered an
\* event of each identity and then ended; the handlers attached after
\* subscribe returned saw both events and the stream-end.
C16_Witness ==
    /\ call = "fetchEvents"
    /\ relaySet = {1}
    /\ nSent = 2
    /\ emitCount = [k \in Keys |-> 1]
    /\ eoseEmitted = 1
    /\ Cardinality(events) = 2
    /\ fetchEventsResult = [state |-> "resolved", value |-> events]

\* Position of a lifecycle state in created, started, running, streamEnded,
\* closed.
LifecycleRank(state) ==
    CASE state = "created" -> 0
      [] state = "started" -> 1
      [] state = "running" -> 2
      [] state = "streamEnded" -> 3
      [] state = "closed" -> 4

\* C17: the lifecycle of a Subscription only moves forward through created,
\* started, running, streamEnded, closed; fetchEvent and fetchEvents always
\* create theirs with closeOnEose true; a Subscription with closeOnEose true
\* is closed once every relay of its set has ended its stream; and from a
\* closed Subscription (closed at stream-end or by an explicit close) nothing
\* reaches the caller any more: no event, no stream-end, no change of a
\* result.
C17_Step ==
    /\ LifecycleRank(subState') >= LifecycleRank(subState)
    /\ (call' \in {"fetchEvent", "fetchEvents"}) => closeOnEose'
    /\ (call' # "none" /\ closeOnEose' /\ relaySet' \subseteq eosed') =>
          subState' = "closed"
    /\ (subState = "closed") =>
          /\ subState' = "closed"
          /\ emitCount' = emitCount
          /\ eoseEmitted' = eoseEmitted
          /\ events' = events
          /\ fetchEventsResult' = fetchEventsResult
          /\ fetchEventResult' = fetchEventResult

C17_ForwardLifecycle == [][C17_Step]_vars

\* C17, witness: a caller's Subscription that would stay open at stream-end
\* was closed explicitly after one event, before any relay ended its stream,
\* and two events sent since were discarded.
C17_Witness ==
    /\ call = "subscribe"
    /\ ~closeOnEose
    /\ relaySet = {1, 2}
    /\ eosed = {}
    /\ subState = "closed"
    /\ emitCount = [k \in Keys |-> IF k = "k1" THEN 1 ELSE 0]
    /\ nDiscarded = 2

\* C19: fetchEvent settles only on an event: as long as no event has been
\* delivered its result is neither resolved nor rejected, also after its
\* Subscription has reached overall stream-end and closed itself, and from
\* then on the result does not change any more.
C19_Step ==
    (call' = "fetchEvent") =>
        /\ (delivered' = {}) => fetchEventResult' = Pending
        /\ (subState = "closed") => fetchEventResult' = fetchEventResult
        /\ fetchEventResult'.state \in {"pending", "resolved"}

C19_FetchEventPendingWithoutEvent == [][C19_Step]_vars

\* C19, witness: both relays ended their streams without delivering an event;
\* the Subscription of fetchEvent is closed, an event sent afterwards was
\* discarded, and the result is still pending.
C19_Witness ==
    /\ call = "fetchEvent"
    /\ relaySet = {1, 2}
    /\ eosed = {1, 2}
    /\ eoseEmitted = 1
    /\ subState = "closed"
    /\ delivered = {}
    /\ nDiscarded = 1
    /\ fetchEventResult = Pending

====
